---- MODULE Spec2Model ----
(***************************************************************************)
(* Model of the cache-backed HackMD blog backend                           *)
(* (src/src/blog_posts/hackmd.py).                                         *)
(*                                                                         *)
(* Five specifications share the variables below:                         *)
(*   Spec          the request handlers fetch_blog_notes, fetch_blog_post  *)
(*                 and refresh_blog_notes acting on the cache file;        *)
(*   SpecNormalize the pure function transform_note applied to one raw     *)
(*                 note drawn from a bounded set;                          *)
(*   SpecCache     save_to_cache followed by get_from_cache on one         *)
(*                 collection of BlogPost objects drawn from a bounded set;*)
(*   SpecRace      fetch_blog_notes and refresh_blog_notes run by two      *)
(*                 server processes that share the cache file, one file    *)
(*                 system call per step;                                   *)
(*   SpecBackup    StaticManager (src/src/utils/static_manager.py) saving, *)
(*                 deleting, backing up and restoring files of the data    *)
(*                 directory.                                              *)
(*                                                                         *)
(* The handlers are `async def` coroutines that contain no await of a      *)
(* suspending operation (requests.get and the file calls are blocking), so *)
(* on the event loop of one process each handler runs from start to end as *)
(* one step: this is Spec.  Requests run concurrently only when several    *)
(* server processes (uvicorn workers) serve the same data directory, and   *)
(* then nothing orders their calls on the file: this is SpecRace.          *)
(***************************************************************************)
EXTENDS Integers, Sequences, FiniteSets, TLC

VARIABLES cache, op, arg, before, status, detail, result, calls, fetched,
          listed, pc, raw, out, notes, readback, worker, disk, store

vars == <<cache, op, arg, before, status, detail, result, calls, fetched,
          listed, pc, raw, out, notes, readback, worker, disk, store>>

pipelineVars == <<cache, op, arg, before, status, detail, result, calls, fetched,
                  listed>>

functionVars == <<raw, out, notes, readback>>

raceVars == <<worker, disk>>

-----------------------------------------------------------------------------
(* Bounds of the model.                                                    *)

\* longest upstream note list, and longest collection written to the cache
MaxNotes == 2

\* longest generated note content, in characters (above the excerpt length)
MaxContentLen == 202

\* seconds that pass on the clock of StaticManager
MaxClock == 1

\* backups that StaticManager makes
MaxBackups == 2

-----------------------------------------------------------------------------
(* Python values.  Every value is a record of the same shape, so that any  *)
(* two values can be compared: t is the Python type, s the payload of a    *)
(* str, n the payload of an int.  Missing stands for a key that a dict     *)
(* does not have.                                                          *)

Missing == [t |-> "missing", s |-> "", n |-> 0]

PyNone == [t |-> "None", s |-> "", n |-> 0]

PyStr(x) == [t |-> "str", s |-> x, n |-> 0]

PyInt(i) == [t |-> "int", s |-> "", n |-> i]

\* bool(v)
Truthy(v) ==
  CASE v.t = "str" -> v.s # ""
    [] v.t = "int" -> v.n # 0
    [] OTHER -> FALSE

\* a or b
PyOr(a, b) == IF Truthy(a) THEN a ELSE b

\* d.get(k, default)
dict_get(d, k, default) == IF d[k] = Missing THEN default ELSE d[k]

Min(a, b) == IF a < b THEN a ELSE b

\* s[:n] on a str
slice_to(s, n) == SubSeq(s, 1, Min(n, Len(s)))

-----------------------------------------------------------------------------
(* BlogPost and transform_note.                                            *)

\* the keys of a raw HackMD note that the code reads
RawFields == {"id", "title", "content", "publishedAt", "createdAt",
              "lastChangedAt", "excerpt", "permalink", "shortId",
              "coverImage", "readingTime"}

PostFields == {"id", "title", "content", "publishDate", "lastModified",
               "excerpt", "slug", "coverImage", "readingTime"}

\* the slice bound of the derived excerpt
ExcerptLen == 200

EllipsisMarker == "..."

\* field types of the pydantic model: str, Optional[int], Optional[str]
IsStr(v) == v.t = "str"

IsOptInt(v) == v.t \in {"None", "int"}

IsOptStr(v) == v.t \in {"None", "str"}

\* a placeholder carried by results that hold no post
NoPost == [f \in PostFields |-> Missing]

Raised(e) == [ok |-> FALSE, err |-> e, val |-> NoPost]

Returned(p) == [ok |-> TRUE, err |-> "", val |-> p]

\* BlogPost(**kw): pydantic validates every field against its declared type
BlogPost(kw) ==
  IF /\ IsStr(kw.id) /\ IsStr(kw.title) /\ IsStr(kw.content)
     /\ IsOptInt(kw.publishDate) /\ IsOptInt(kw.lastModified)
     /\ IsStr(kw.excerpt) /\ IsStr(kw.slug)
     /\ IsOptStr(kw.coverImage) /\ IsOptStr(kw.readingTime)
  THEN Returned(kw)
  ELSE Raised("ValidationError")

\* a variant that appends the marker only when the content was cut
derive_excerpt_marker_if_cut(post) ==
  LET content == dict_get(post, "content", PyStr(""))
  IN  IF Len(content.s) <= ExcerptLen
      THEN PyStr(content.s)
      ELSE PyStr(slice_to(content.s, ExcerptLen) \o EllipsisMarker)

\* post.get("content", "")[:200] + "..."
derive_excerpt(post) ==
  LET content == dict_get(post, "content", PyStr(""))
  IN  PyStr(slice_to(content.s, ExcerptLen) \o EllipsisMarker)

\* a variant that ignores the upstream excerpt
excerpt_always_derived(post) == derive_excerpt(post)

\* post.get("excerpt") or <the derived excerpt>
excerpt_of(post) == PyOr(dict_get(post, "excerpt", PyNone), derive_excerpt(post))

\* post.get("permalink") or post.get("shortId", "")
derive_slug(post) ==
  PyOr(dict_get(post, "permalink", PyNone), dict_get(post, "shortId", PyStr("")))

transform_note(post) ==
  IF post["id"] = Missing \/ post["title"] = Missing
  THEN Raised("KeyError")
  ELSE IF /\ ~Truthy(dict_get(post, "excerpt", PyNone))
          /\ ~IsStr(dict_get(post, "content", PyStr("")))
  THEN Raised("TypeError")
  ELSE BlogPost(
    [id           |-> post["id"],
     title        |-> post["title"],
     content      |-> dict_get(post, "content", PyStr("")),
     publishDate  |-> dict_get(post, "publishedAt",
                               dict_get(post, "createdAt", PyStr(""))),
     lastModified |-> dict_get(post, "lastChangedAt", PyStr("")),
     excerpt      |-> excerpt_of(post),
     slug         |-> derive_slug(post),
     coverImage   |-> dict_get(post, "coverImage", PyNone),
     readingTime  |-> dict_get(post, "readingTime", PyNone)])

-----------------------------------------------------------------------------
(* The cache file data/notes_cache.json and its JSON encoding.             *)

JNull == [t |-> "null", s |-> "", n |-> 0]

JString(x) == [t |-> "string", s |-> x, n |-> 0]

JNumber(i) == [t |-> "number", s |-> "", n |-> i]

\* a variant that writes None as an empty string
json_dumps_blank(v) ==
  CASE v.t = "None" -> JString("")
    [] v.t = "str"  -> JString(v.s)
    [] v.t = "int"  -> JNumber(v.n)

\* json.dumps of one Python value
json_dumps(v) ==
  CASE v.t = "None" -> JNull
    [] v.t = "str"  -> JString(v.s)
    [] v.t = "int"  -> JNumber(v.n)

\* json.loads of one JSON value
json_loads(j) ==
  CASE j.t = "null"   -> PyNone
    [] j.t = "string" -> PyStr(j.s)
    [] j.t = "number" -> PyInt(j.n)

\* the file: exists is Path.exists(), parses tells whether its text is a
\* JSON document, doc is the JSON array it then holds
Absent == [exists |-> FALSE, parses |-> FALSE, doc |-> <<>>]

\* the file as open(..., 'w') leaves it when the text was not written in
\* full: truncated, not a JSON document
Torn == [exists |-> TRUE, parses |-> FALSE, doc |-> <<>>]

\* cache_path.write_text(json.dumps([post.dict() for post in notes]))
save_to_cache(posts) ==
  [exists |-> TRUE,
   parses |-> TRUE,
   doc    |-> [i \in 1..Len(posts) |->
                 [f \in PostFields |-> json_dumps(posts[i][f])]]]

\* a variant that takes a file it cannot parse for no file
get_from_cache_lenient(file) ==
  IF ~file.exists \/ ~file.parses
  THEN [ok |-> TRUE, none |-> TRUE, val |-> <<>>]
  ELSE [ok |-> TRUE, none |-> FALSE,
        val |-> [i \in 1..Len(file.doc) |->
                   [f \in PostFields |-> json_loads(file.doc[i][f])]]]

\* [BlogPost(**post) for post in json.loads(cache_path.read_text())], or None
get_from_cache(file) ==
  IF ~file.exists
  THEN [ok |-> TRUE, none |-> TRUE, val |-> <<>>]
  ELSE IF ~file.parses
  THEN [ok |-> FALSE, none |-> FALSE, val |-> <<>>]
  ELSE LET loaded == [i \in 1..Len(file.doc) |->
                        BlogPost([f \in PostFields |-> json_loads(file.doc[i][f])])]
       IN  IF \A i \in 1..Len(loaded) : loaded[i].ok
           THEN [ok |-> TRUE, none |-> FALSE,
                 val |-> [i \in 1..Len(loaded) |-> loaded[i].val]]
           ELSE [ok |-> FALSE, none |-> FALSE, val |-> <<>>]

\* the walrus test `if cached_notes := get_from_cache():` (truthiness of
\* None and of a list)
cache_hit(got) == ~got.none /\ Len(got.val) > 0

\* a variant that leaves the file in place
invalidate_keep(file) == file

\* cache_path.unlink() under `if cache_path.exists()`
invalidate(file) == IF file.exists THEN Absent ELSE file

\* what a request observed of the file when it started
CacheKind(file) ==
  IF ~file.exists THEN "absent"
  ELSE IF ~file.parses THEN "torn"
  ELSE IF Len(file.doc) = 0 THEN "empty" ELSE "nonempty"

-----------------------------------------------------------------------------
(* The upstream HackMD API, as the answers it may give to one request.     *)

EmptyNote == [f \in RawFields |-> Missing]

NoteHello ==
  [EmptyNote EXCEPT !["id"] = PyStr("n1"), !["title"] = PyStr("Hello"),
     !["content"] = PyStr("Hello body"), !["publishedAt"] = PyInt(10),
     !["createdAt"] = PyInt(5), !["lastChangedAt"] = PyInt(20),
     !["excerpt"] = PyStr("Greeting"), !["permalink"] = PyStr("hello-world"),
     !["shortId"] = PyStr("a"), !["coverImage"] = PyStr("img.png"),
     !["readingTime"] = PyStr("3 min")]

NoteBare ==
  [EmptyNote EXCEPT !["id"] = PyStr("n2"), !["title"] = PyStr("Hi"),
     !["content"] = PyStr("short"), !["publishedAt"] = PyNone,
     !["createdAt"] = PyInt(6), !["lastChangedAt"] = PyInt(21),
     !["permalink"] = PyNone, !["shortId"] = PyStr("b")]

\* a second note published under the permalink of NoteHello
NoteTwin ==
  [EmptyNote EXCEPT !["id"] = PyStr("n3"), !["title"] = PyStr("Twin"),
     !["content"] = PyStr("Other body"), !["publishedAt"] = PyInt(11),
     !["lastChangedAt"] = PyInt(22), !["permalink"] = PyStr("hello-world"),
     !["shortId"] = PyStr("c")]

\* a note with neither permalink nor shortId
NoteNoKey ==
  [EmptyNote EXCEPT !["id"] = PyStr("n4"), !["title"] = PyStr("Keyless"),
     !["content"] = PyStr(""), !["publishedAt"] = PyInt(12),
     !["lastChangedAt"] = PyInt(23)]

\* a note without title
NoteBad ==
  [EmptyNote EXCEPT !["id"] = PyStr("n5"), !["publishedAt"] = PyInt(13),
     !["lastChangedAt"] = PyInt(24), !["shortId"] = PyStr("e")]

Answer(n) == [ok |-> TRUE, code |-> 200, note |-> n]

Failure(c) == [ok |-> FALSE, code |-> c, note |-> EmptyNote]

\* one entry of the GET /notes answer, with the answer that
\* GET /notes/{shortId} gives for it
ListItems ==
  { [shortId |-> PyStr("a"), detail |-> Answer(NoteHello)],
    [shortId |-> PyStr("b"), detail |-> Answer(NoteBare)],
    [shortId |-> PyStr("c"), detail |-> Answer(NoteTwin)],
    [shortId |-> PyStr("d"), detail |-> Answer(NoteNoKey)],
    [shortId |-> PyStr("e"), detail |-> Answer(NoteBad)],
    [shortId |-> PyStr("a"), detail |-> Failure(503)],
    [shortId |-> Missing,    detail |-> Failure(0)] }

SeqUpTo(S, n) == UNION { [1..k -> S] : k \in 0..n }

\* what a list fetch meets: the answers of the upstream, and whether
\* write_text completes (write_ok) or raises OSError after open(..., 'w')
\* has truncated the file
ListAnswers ==
  { [ok |-> TRUE, code |-> 200, items |-> l, write_ok |-> w] :
      l \in SeqUpTo(ListItems, MaxNotes), w \in BOOLEAN }
    \cup { [ok |-> FALSE, code |-> 503, items |-> <<>>, write_ok |-> TRUE] }

\* the notes the upstream holds
UpstreamNotes == {NoteHello, NoteBare, NoteTwin, NoteNoKey, NoteBad}

\* answers of the upstream to GET /notes/{slug}: a note it knows under that
\* identifier (its id, its shortId or its permalink), not-found, or an error
NoteAnswers(slug) ==
  { Answer(n) : n \in { x \in UpstreamNotes :
                          PyStr(slug) \in {x["id"], x["shortId"], x["permalink"]} } }
    \cup { Failure(404), Failure(503) }

Slugs == {"hello-world", "a", "b", "e", "missing"}

\* one upstream call: the endpoint, its path argument, the status answered
Call(kind, id, code) == [kind |-> kind, id |-> id, code |-> code]

-----------------------------------------------------------------------------
(* The request handlers.                                                   *)

\* a variant of the loop that skips a note whose detail call failed
RECURSIVE fetch_details_skip(_, _, _, _)
fetch_details_skip(note_list, i, posts, log) ==
  IF i > Len(note_list)
  THEN [ok |-> TRUE, err |-> "", posts |-> posts, calls |-> log]
  ELSE IF note_list[i].shortId = Missing
  THEN [ok |-> FALSE, err |-> "KeyError", posts |-> posts, calls |-> log]
  ELSE LET log2 == Append(log, Call("detail", note_list[i].shortId.s,
                                    note_list[i].detail.code))
       IN  IF ~note_list[i].detail.ok
           THEN fetch_details_skip(note_list, i + 1, posts, log2)
           ELSE fetch_details_skip(note_list, i + 1,
                                   Append(posts, note_list[i].detail.note), log2)

\* the loop `for note in note_list:` of fetch_blog_notes, from index i on:
\* note['shortId'], the detail call, raise_for_status, posts.append
RECURSIVE fetch_details(_, _, _, _)
fetch_details(note_list, i, posts, log) ==
  IF i > Len(note_list)
  THEN [ok |-> TRUE, err |-> "", posts |-> posts, calls |-> log]
  ELSE IF note_list[i].shortId = Missing
  THEN [ok |-> FALSE, err |-> "KeyError", posts |-> posts, calls |-> log]
  ELSE LET log2 == Append(log, Call("detail", note_list[i].shortId.s,
                                    note_list[i].detail.code))
       IN  IF ~note_list[i].detail.ok
           THEN [ok |-> FALSE, err |-> "RequestException",
                 posts |-> posts, calls |-> log2]
           ELSE fetch_details(note_list, i + 1,
                              Append(posts, note_list[i].detail.note), log2)

Reply(file, st, dt, res, log, got) ==
  [cache |-> file, status |-> st, detail |-> dt, result |-> res,
   calls |-> log, fetched |-> got, listed |-> <<>>]

\* the reply r of a request to which the upstream listed the notes `items`:
\* listed keeps the shortId of each entry of note_list
Listing(r, items) ==
  [r EXCEPT !.listed = [i \in 1..Len(items) |-> items[i].shortId]]

ListError == "Failed to fetch blog notes"

\* f"Failed to fetch blog notes: {e}", e named by the exception raised
ListFailure(cause) == ListError \o ": " \o cause

PostError == "Failed to fetch blog post"

ServerError == "Internal Server Error"

\* the body of fetch_blog_notes on the cache file `file`, meeting `u`
list_notes(file, u) ==
  LET cached == get_from_cache(file)
  IN  IF ~cached.ok
      THEN Reply(file, 500, ListFailure("JSONDecodeError"), <<>>, <<>>, <<>>)
      ELSE IF cache_hit(cached)
      THEN Reply(file, 200, "", cached.val, <<>>, <<>>)
      ELSE IF ~u.ok
      THEN Reply(file, 500, ListFailure("RequestException"), <<>>,
                 <<Call("list", "", u.code)>>, <<>>)
      ELSE
        LET got == fetch_details(u.items, 1, <<>>, <<Call("list", "", u.code)>>)
            transformed == [i \in 1..Len(got.posts) |-> transform_note(got.posts[i])]
            bad == { i \in 1..Len(transformed) : ~transformed[i].ok }
        IN  Listing(
              IF ~got.ok
              THEN Reply(file, 500, ListFailure(got.err), <<>>, got.calls, got.posts)
              ELSE IF bad # {}
              THEN Reply(file, 500,
                         ListFailure(transformed[CHOOSE i \in bad :
                                                   \A j \in bad : i <= j].err),
                         <<>>, got.calls, got.posts)
              ELSE LET transformed_notes ==
                         [i \in 1..Len(transformed) |-> transformed[i].val]
                   IN  IF ~u.write_ok
                       THEN Reply(Torn, 500, ListFailure("OSError"), <<>>,
                                  got.calls, got.posts)
                       ELSE Reply(save_to_cache(transformed_notes), 200, "",
                                  transformed_notes, got.calls, got.posts),
              u.items)

\* a variant of the scan that keeps the last match
last_match(posts, slug) ==
  LET hits == { i \in 1..Len(posts) : posts[i].slug = PyStr(slug) }
  IN  IF hits = {} THEN 0 ELSE CHOOSE i \in hits : \A j \in hits : i >= j

\* the first cached post whose slug is `slug`: the scan
\* `for post in cached_notes: if post.slug == slug: return post`
first_match(posts, slug) ==
  LET hits == { i \in 1..Len(posts) : posts[i].slug = PyStr(slug) }
  IN  IF hits = {} THEN 0 ELSE CHOOSE i \in hits : \A j \in hits : i <= j

\* a variant of fetch_blog_post that appends the post it fetched upstream
\* to the cached collection
get_post_upsert(file, slug, u) ==
  LET cached == get_from_cache(file)
      hit == IF cached.ok /\ cache_hit(cached) THEN first_match(cached.val, slug) ELSE 0
  IN  IF ~cached.ok
      THEN Reply(file, 500, ServerError, <<>>, <<>>, <<>>)
      ELSE IF hit # 0
      THEN Reply(file, 200, "", <<cached.val[hit]>>, <<>>, <<>>)
      ELSE IF ~u.ok
      THEN Reply(file, 500, PostError, <<>>, <<Call("note", slug, u.code)>>, <<>>)
      ELSE LET post == transform_note(u.note)
           IN  IF ~post.ok
               THEN Reply(file, 500, ServerError, <<>>,
                          <<Call("note", slug, u.code)>>, <<u.note>>)
               ELSE Reply(save_to_cache(Append(cached.val, post.val)), 200, "",
                          <<post.val>>, <<Call("note", slug, u.code)>>, <<u.note>>)

\* the body of fetch_blog_post
get_post(file, slug, u) ==
  LET cached == get_from_cache(file)
      hit == IF cached.ok /\ cache_hit(cached) THEN first_match(cached.val, slug) ELSE 0
  IN  IF ~cached.ok
      THEN Reply(file, 500, ServerError, <<>>, <<>>, <<>>)
      ELSE IF hit # 0
      THEN Reply(file, 200, "", <<cached.val[hit]>>, <<>>, <<>>)
      ELSE IF ~u.ok
      THEN Reply(file, 500, PostError, <<>>, <<Call("note", slug, u.code)>>, <<>>)
      ELSE LET post == transform_note(u.note)
           IN  IF ~post.ok
               THEN Reply(file, 500, ServerError, <<>>, <<Call("note", slug, u.code)>>, <<u.note>>)
               ELSE Reply(file, 200, "", <<post.val>>, <<Call("note", slug, u.code)>>, <<u.note>>)

\* the server processes
Workers == {1, 2}

\* a process that serves no request
IdleWorker ==
  [pc |-> "idle", kind |-> "none", inv |-> "none", seen |-> "none",
   mine |-> <<>>, status |-> 0, err |-> "", ncalls |-> 0,
   stale |-> FALSE, wrote |-> FALSE]

RaceIdle ==
  /\ worker = [p \in Workers |-> IdleWorker]
  /\ disk = [size |-> 0, last |-> 0]

\* a directory without files
NoFiles == [n \in {} |-> ""]

\* no StaticManager method was called yet
NoCall ==
  [op |-> "none", arg |-> "", status |-> 0, target |-> "", had |-> FALSE,
   prev |-> "", made |-> ""]

\* StaticManager on an empty data directory: the files of base_dir, the
\* files of backup_dir, the clock, the number of backups made, what each
\* backup returned by create_backup was made of, and the last call
StoreIdle ==
  store = [files |-> NoFiles, backups |-> NoFiles, clock |-> 0, count |-> 0,
           origin |-> [n \in {} |-> [name |-> "", data |-> ""]],
           last |-> NoCall]

Respond(kind, slug, file, r) ==
  /\ op' = kind
  /\ arg' = slug
  /\ before' = CacheKind(file)
  /\ cache' = r.cache
  /\ status' = r.status
  /\ detail' = r.detail
  /\ result' = r.result
  /\ calls' = r.calls
  /\ fetched' = r.fetched
  /\ listed' = r.listed
  /\ UNCHANGED <<pc, raw, out, notes, readback, raceVars, store>>

\* GET /notes
fetch_blog_notes(u) ==
  /\ pc = "serve"
  /\ Respond("list", "", cache, list_notes(cache, u))

\* GET /notes/{slug}
fetch_blog_post(slug, u) ==
  /\ pc = "serve"
  /\ Respond("get", slug, cache, get_post(cache, slug, u))

\* a variant of the refresh that puts the prior file back when the fetch fails
refresh_keep_on_failure(u) ==
  /\ pc = "serve"
  /\ LET r == list_notes(invalidate(cache), u)
     IN  Respond("refresh", "", cache,
                 IF r.status = 200 THEN r ELSE [r EXCEPT !.cache = cache])

\* POST /notes/refresh
refresh_blog_notes(u) ==
  /\ pc = "serve"
  /\ Respond("refresh", "", cache, list_notes(invalidate(cache), u))

Init ==
  /\ cache = Absent
  /\ op = "none"
  /\ arg = ""
  /\ before = "absent"
  /\ status = 0
  /\ detail = ""
  /\ result = <<>>
  /\ calls = <<>>
  /\ fetched = <<>>
  /\ listed = <<>>
  /\ pc = "serve"
  /\ raw = EmptyNote
  /\ out = Raised("")
  /\ notes = <<>>
  /\ readback = get_from_cache(Absent)
  /\ RaceIdle
  /\ StoreIdle

ListFetch == \E u \in ListAnswers : fetch_blog_notes(u)

PostFetch == \E slug \in Slugs : \E u \in NoteAnswers(slug) : fetch_blog_post(slug, u)

Refresh == \E u \in ListAnswers : refresh_blog_notes(u)

Next == ListFetch \/ PostFetch \/ Refresh

Spec == Init /\ [][Next]_vars

-----------------------------------------------------------------------------
(* transform_note applied to one raw note.                                 *)

Block == "1234567890"

\* a text of n characters whose i-th character is the last digit of i
RECURSIVE Text(_)
Text(n) == IF n < Len(Block) THEN SubSeq(Block, 1, n)
           ELSE Block \o Text(n - Len(Block))

Contents ==
  {"", "short"} \cup { Text(n) : n \in (ExcerptLen - 1)..MaxContentLen }

RawNotes ==
  { [id |-> i, title |-> t, content |-> c, publishedAt |-> p, createdAt |-> cr,
     lastChangedAt |-> l, excerpt |-> e, permalink |-> pl, shortId |-> sh,
     coverImage |-> ci, readingTime |-> rt] :
      i  \in {Missing, PyStr("1")},
      t  \in {Missing, PyStr("Hi")},
      c  \in {Missing, PyNone} \cup { PyStr(x) : x \in Contents },
      p  \in {Missing, PyNone, PyInt(10)},
      cr \in {Missing, PyInt(5)},
      l  \in {Missing, PyInt(20)},
      e  \in {Missing, PyNone, PyStr(""), PyStr("Summary")},
      pl \in {Missing, PyNone, PyStr(""), PyStr("hi")},
      sh \in {Missing, PyStr("s1")},
      ci \in {Missing, PyStr("img.png")},
      rt \in {Missing, PyStr("3 min")} }

PipelineIdle ==
  /\ cache = Absent
  /\ op = "none"
  /\ arg = ""
  /\ before = "absent"
  /\ status = 0
  /\ detail = ""
  /\ result = <<>>
  /\ calls = <<>>
  /\ fetched = <<>>
  /\ listed = <<>>

InitNormalize ==
  /\ PipelineIdle
  /\ pc = "input"
  /\ raw \in RawNotes
  /\ out = Raised("")
  /\ notes = <<>>
  /\ readback = get_from_cache(Absent)
  /\ RaceIdle
  /\ StoreIdle

Normalize ==
  /\ pc = "input"
  /\ out' = transform_note(raw)
  /\ pc' = "done"
  /\ UNCHANGED <<pipelineVars, raw, notes, readback, raceVars, store>>

NextNormalize == Normalize

SpecNormalize == InitNormalize /\ [][NextNormalize]_vars

-----------------------------------------------------------------------------
(* save_to_cache followed by get_from_cache on one collection.             *)

SamplePosts ==
  { [id |-> PyStr("n1"), title |-> PyStr("Hello"), content |-> PyStr("Hello body"),
     publishDate |-> pd, lastModified |-> lm, excerpt |-> PyStr("Greeting"),
     slug |-> PyStr("hello-world"), coverImage |-> ci, readingTime |-> rt] :
      pd \in {PyNone, PyInt(0), PyInt(10)},
      lm \in {PyNone, PyInt(20)},
      ci \in {PyNone, PyStr(""), PyStr("img.png")},
      rt \in {PyNone, PyStr("3 min")} }

InitCache ==
  /\ PipelineIdle
  /\ pc = "write"
  /\ raw = EmptyNote
  /\ out = Raised("")
  /\ notes \in SeqUpTo(SamplePosts, MaxNotes)
  /\ readback = get_from_cache(Absent)
  /\ RaceIdle
  /\ StoreIdle

WriteCache ==
  /\ pc = "write"
  /\ cache' = save_to_cache(notes)
  /\ pc' = "read"
  /\ UNCHANGED <<op, arg, before, status, detail, result, calls, fetched,
                 listed, raw, out, notes, readback, raceVars, store>>

ReadCache ==
  /\ pc = "read"
  /\ readback' = get_from_cache(cache)
  /\ pc' = "done"
  /\ UNCHANGED <<pipelineVars, raw, out, notes, raceVars, store>>

NextCache == WriteCache \/ ReadCache

SpecCache == InitCache /\ [][NextCache]_vars

-----------------------------------------------------------------------------
(* fetch_blog_notes and refresh_blog_notes run by two server processes.    *)
(* Each step is one call on the file: exists(), unlink(), read_text(),     *)
(* open(..., 'w') and the write that follows it; the upstream calls of a   *)
(* request touch no shared state and are one step.                         *)

RECURSIVE DigitsOf(_)
DigitsOf(n) == IF n < 10 THEN 1 ELSE 1 + DigitsOf(n \div 10)

\* len(json.dumps(v)) for one value: null, a quoted string, a number
JLen(j) ==
  CASE j.t = "null"   -> 4
    [] j.t = "string" -> Len(j.s) + 2
    [] j.t = "number" -> DigitsOf(j.n)

RECURSIVE SeqSum(_)
SeqSum(q) == IF q = <<>> THEN 0 ELSE Head(q) + SeqSum(Tail(q))

\* the keys of post.dict()
FieldSeq == <<"id", "title", "content", "publishDate", "lastModified",
              "excerpt", "slug", "coverImage", "readingTime">>

\* len(json.dumps(obj)): braces, `"key": value` items, ", " between items
ObjLen(o) ==
  2 + SeqSum([i \in 1..Len(FieldSeq) |->
                Len(FieldSeq[i]) + 4 + JLen(o[FieldSeq[i]])])
    + 2 * (Len(FieldSeq) - 1)

\* len(json.dumps(doc)), the number of characters write_text writes
TextLen(doc) ==
  IF Len(doc) = 0 THEN 2
  ELSE 2 + SeqSum([i \in 1..Len(doc) |-> ObjLen(doc[i])]) + 2 * (Len(doc) - 1)

\* the file after `posts` is written at offset 0 of a file that holds `size`
\* characters: the new text alone, or the new text followed by the rest of
\* the longer text that was there, which is no JSON document
write_over(size, posts) ==
  LET new == save_to_cache(posts)
  IN  IF size <= TextLen(new.doc)
      THEN [file |-> new, size |-> TextLen(new.doc)]
      ELSE [file |-> Torn, size |-> size]

\* an invalidation that unlinks without looking
needs_unlink_always(file) == TRUE

\* `if cache_path.exists():` of refresh_blog_notes
needs_unlink(file) == file.exists

\* what the upstream answers to a racing list fetch
RaceAnswers ==
  { [ok |-> TRUE, code |-> 200, items |-> l, write_ok |-> TRUE] :
      l \in { <<>>,
              << [shortId |-> PyStr("a"), detail |-> Answer(NoteHello)] >>,
              << [shortId |-> PyStr("b"), detail |-> Answer(NoteBare)] >> } }
    \cup { [ok |-> FALSE, code |-> 503, items |-> <<>>, write_ok |-> TRUE] }

Step(p, w) ==
  /\ worker' = [worker EXCEPT ![p] = w]

Failed(w, e) == [w EXCEPT !.pc = "done", !.status = 500, !.err = e]

\* a request arrives at process p
Start(p, kind) ==
  /\ worker[p].pc = "idle"
  /\ Step(p, [IdleWorker EXCEPT !.kind = kind,
                !.pc = IF kind = "refresh" THEN "exists" ELSE "probe"])
  /\ UNCHANGED <<cache, disk>>

\* refresh_blog_notes: cache_path.exists()
RefreshExists(p) ==
  /\ worker[p].pc = "exists"
  /\ Step(p, IF needs_unlink(cache)
             THEN [worker[p] EXCEPT !.pc = "unlink"]
             ELSE [worker[p] EXCEPT !.pc = "probe", !.inv = "absent"])
  /\ UNCHANGED <<cache, disk>>

\* refresh_blog_notes: cache_path.unlink(); a file that is gone raises
\* FileNotFoundError, which nothing catches.  The descriptors that other
\* processes hold on the removed file go stale.
Unlink(p) ==
  /\ worker[p].pc = "unlink"
  /\ IF cache.exists
     THEN /\ cache' = Absent
          /\ disk' = [disk EXCEPT !.size = 0]
          /\ worker' = [q \in Workers |->
                          IF q = p
                          THEN [worker[q] EXCEPT !.pc = "probe", !.inv = "removed"]
                          ELSE IF worker[q].pc = "write"
                          THEN [worker[q] EXCEPT !.stale = TRUE]
                          ELSE worker[q]]
     ELSE /\ Step(p, Failed(worker[p], "FileNotFoundError"))
          /\ UNCHANGED <<cache, disk>>

\* get_from_cache: cache_path.exists()
Probe(p) ==
  /\ worker[p].pc = "probe"
  /\ Step(p, IF cache.exists
             THEN [worker[p] EXCEPT !.pc = "load"]
             ELSE [worker[p] EXCEPT !.pc = "fetch", !.seen = "absent"])
  /\ UNCHANGED <<cache, disk>>

\* get_from_cache: read_text, json.loads, BlogPost(**post); then the walrus
\* test of fetch_blog_notes
Load(p) ==
  /\ worker[p].pc = "load"
  /\ LET got == get_from_cache(cache)
     IN  Step(p, IF ~cache.exists
                 THEN [Failed(worker[p], "FileNotFoundError") EXCEPT !.seen = "gone"]
                 ELSE IF ~got.ok
                 THEN [Failed(worker[p], "JSONDecodeError") EXCEPT !.seen = "torn"]
                 ELSE IF cache_hit(got)
                 THEN [worker[p] EXCEPT !.pc = "done", !.status = 200,
                                        !.seen = "complete", !.mine = got.val]
                 ELSE [worker[p] EXCEPT !.pc = "fetch", !.seen = "complete"])
  /\ UNCHANGED <<cache, disk>>

\* fetch_blog_notes: the list call, the detail calls, transform_note
Fetch(p, u) ==
  /\ worker[p].pc = "fetch"
  /\ LET r == list_notes(Absent, u)
     IN  Step(p, IF r.status = 200
                 THEN [worker[p] EXCEPT !.pc = "open", !.mine = r.result,
                                        !.ncalls = Len(r.calls)]
                 ELSE [Failed(worker[p], r.detail) EXCEPT !.ncalls = Len(r.calls)])
  /\ UNCHANGED <<cache, disk>>

\* save_to_cache: write_text opens the file with open(..., 'w'), which
\* creates it or truncates it
Open(p) ==
  /\ worker[p].pc = "open"
  /\ cache' = Torn
  /\ disk' = [disk EXCEPT !.size = 0]
  /\ Step(p, [worker[p] EXCEPT !.pc = "write", !.stale = FALSE])

\* save_to_cache: write_text writes the text at offset 0 and closes; a stale
\* descriptor writes to the removed file
Write(p) ==
  /\ worker[p].pc = "write"
  /\ IF worker[p].stale
     THEN /\ cache' = cache
          /\ disk' = [disk EXCEPT !.last = p]
     ELSE LET w == write_over(disk.size, worker[p].mine)
          IN  /\ cache' = w.file
              /\ disk' = [size |-> w.size, last |-> p]
  /\ Step(p, [worker[p] EXCEPT !.pc = "done", !.status = 200, !.wrote = TRUE])

\* the response is sent
Finish(p) ==
  /\ worker[p].pc = "done"
  /\ Step(p, IdleWorker)
  /\ UNCHANGED <<cache, disk>>

InitRace ==
  /\ PipelineIdle
  /\ pc = "race"
  /\ raw = EmptyNote
  /\ out = Raised("")
  /\ notes = <<>>
  /\ readback = get_from_cache(Absent)
  /\ RaceIdle
  /\ StoreIdle

\* a step of a server process changes nothing but the file and the process
RaceFrame ==
  /\ pc = "race"
  /\ UNCHANGED <<op, arg, before, status, detail, result, calls, fetched,
                 listed, pc, functionVars, store>>

NextRace ==
  \/ \E p \in Workers : \E kind \in {"list", "refresh"} : Start(p, kind) /\ RaceFrame
  \/ \E p \in Workers : RefreshExists(p) /\ RaceFrame
  \/ \E p \in Workers : Unlink(p) /\ RaceFrame
  \/ \E p \in Workers : Probe(p) /\ RaceFrame
  \/ \E p \in Workers : Load(p) /\ RaceFrame
  \/ \E p \in Workers : \E u \in RaceAnswers : Fetch(p, u) /\ RaceFrame
  \/ \E p \in Workers : Open(p) /\ RaceFrame
  \/ \E p \in Workers : Write(p) /\ RaceFrame
  \/ \E p \in Workers : Finish(p) /\ RaceFrame

SpecRace == InitRace /\ [][NextRace]_vars

-----------------------------------------------------------------------------
(* StaticManager: save_json, delete_file, create_backup, restore_backup.   *)

\* the last position of character c in s[1..i], 0 when there is none
RECURSIVE LastIndexOf(_, _, _)
LastIndexOf(s, c, i) ==
  IF i = 0 THEN 0
  ELSE IF SubSeq(s, i, i) = c THEN i ELSE LastIndexOf(s, c, i - 1)

\* the first position of character c in s[i..], 0 when there is none
RECURSIVE FirstIndexOf(_, _, _)
FirstIndexOf(s, c, i) ==
  IF i > Len(s) THEN 0
  ELSE IF SubSeq(s, i, i) = c THEN i ELSE FirstIndexOf(s, c, i + 1)

\* s.rsplit('.', 1)
rsplit_dot(s) ==
  LET k == LastIndexOf(s, ".", Len(s))
  IN  IF k = 0 THEN <<s>> ELSE <<SubSeq(s, 1, k - 1), SubSeq(s, k + 1, Len(s))>>

\* s.split('_')[0]
split_underscore_first(s) ==
  LET k == FirstIndexOf(s, "_", 1)
  IN  IF k = 0 THEN s ELSE SubSeq(s, 1, k - 1)

\* s.endswith(suffix)
endswith(s, suffix) ==
  /\ Len(s) >= Len(suffix)
  /\ SubSeq(s, Len(s) - Len(suffix) + 1, Len(s)) = suffix

\* datetime.now().strftime("%Y%m%d_%H%M%S") at second c of the clock
Stamp(c) == "20240101_00000" \o SubSeq("0123456789", c + 1, c + 1)

\* backup_filename of create_backup
backup_filename(filename, timestamp) ==
  rsplit_dot(filename)[1] \o "_" \o timestamp \o "." \o rsplit_dot(filename)[2]

\* original_filename of restore_backup
original_filename(backup) ==
  split_underscore_first(backup) \o "." \o rsplit_dot(backup)[2]

\* the file name save_json writes to
save_name(filename) ==
  IF endswith(filename, ".json") THEN filename ELSE filename \o ".json"

\* file contents, and the file names handed to save_json
Contents2 == {"v1", "v2"}

FileArgs == {"posts", "notes_cache.json"}

\* dict with one more entry
Put(dir, name, data) == (name :> data) @@ dir

Remove(dir, name) == [n \in DOMAIN dir \ {name} |-> dir[n]]

\* create_backup: 404 without the file, else a copy of it in backup_dir
create_backup(st, filename) ==
  IF filename \notin DOMAIN st.files
  THEN [status |-> 404, path |-> "", backups |-> st.backups]
  ELSE LET path == backup_filename(filename, Stamp(st.clock))
       IN  [status |-> 200, path |-> path,
            backups |-> Put(st.backups, path, st.files[filename])]

\* restore_backup: 404 without the backup; else the target is backed up if
\* it exists, and then the backup file is copied over the target
restore_backup(st, backup) ==
  IF backup \notin DOMAIN st.backups
  THEN [status |-> 404, target |-> "", had |-> FALSE, prev |-> "", made |-> "",
        files |-> st.files, backups |-> st.backups]
  ELSE LET target == original_filename(backup)
           had == target \in DOMAIN st.files
           saved == IF had THEN create_backup(st, target)
                    ELSE [status |-> 200, path |-> "", backups |-> st.backups]
       IN  [status |-> 200, target |-> target, had |-> had,
            prev |-> IF had THEN st.files[target] ELSE "",
            made |-> saved.path,
            files |-> Put(st.files, target, saved.backups[backup]),
            backups |-> saved.backups]

BackupFrame ==
  /\ pc = "backup"
  /\ UNCHANGED <<pipelineVars, pc, functionVars, raceVars>>

\* save_json(filename, data)
SaveJson(filename, data) ==
  /\ store' = [store EXCEPT
                 !.files = Put(@, save_name(filename), data),
                 !.last = [NoCall EXCEPT !.op = "save", !.status = 200]]
  /\ BackupFrame

\* a second passes
Tick ==
  /\ store.clock < MaxClock
  /\ store' = [store EXCEPT !.clock = @ + 1, !.last = NoCall]
  /\ BackupFrame

\* create_backup(filename) called by a client, who keeps the path returned
CreateBackup(filename) ==
  /\ store.count < MaxBackups
  /\ LET r == create_backup(store, filename)
     IN  store' = [store EXCEPT
                     !.backups = r.backups,
                     !.count = IF r.status = 200 THEN @ + 1 ELSE @,
                     !.origin = IF r.status = 200
                                THEN Put(@, r.path, [name |-> filename,
                                                     data |-> store.files[filename]])
                                ELSE @,
                     !.last = [NoCall EXCEPT !.op = "backup", !.status = r.status]]
  /\ BackupFrame

\* delete_file(filename, create_backup)
DeleteFile(filename, backup) ==
  /\ backup => store.count < MaxBackups
  /\ IF filename \notin DOMAIN store.files
     THEN store' = [store EXCEPT
                      !.last = [NoCall EXCEPT !.op = "delete", !.status = 404]]
     ELSE LET r == IF backup THEN create_backup(store, filename)
                   ELSE [status |-> 200, path |-> "", backups |-> store.backups]
          IN  store' = [store EXCEPT
                          !.files = Remove(@, filename),
                          !.backups = r.backups,
                          !.count = IF backup THEN @ + 1 ELSE @,
                          !.last = [NoCall EXCEPT !.op = "delete", !.status = 200]]
  /\ BackupFrame

\* restore_backup(backup_filename)
RestoreBackup(backup) ==
  /\ LET r == restore_backup(store, backup)
     IN  /\ r.had => store.count < MaxBackups
         /\ store' = [store EXCEPT
                        !.files = r.files,
                        !.backups = r.backups,
                        !.count = IF r.had THEN @ + 1 ELSE @,
                        !.last = [op |-> "restore", arg |-> backup,
                                  status |-> r.status, target |-> r.target,
                                  had |-> r.had, prev |-> r.prev, made |-> r.made]]
  /\ BackupFrame

InitBackup ==
  /\ PipelineIdle
  /\ pc = "backup"
  /\ raw = EmptyNote
  /\ out = Raised("")
  /\ notes = <<>>
  /\ readback = get_from_cache(Absent)
  /\ RaceIdle
  /\ StoreIdle

NextBackup ==
  \/ \E filename \in FileArgs : \E data \in Contents2 : SaveJson(filename, data)
  \/ Tick
  \/ \E filename \in DOMAIN store.files \cup {"gone.json"} : CreateBackup(filename)
  \/ \E filename \in DOMAIN store.files \cup {"gone.json"} :
       \E backup \in BOOLEAN : DeleteFile(filename, backup)
  \/ \E backup \in DOMAIN store.backups \cup {"gone_20240101_000000.json"} :
       RestoreBackup(backup)

SpecBackup == InitBackup /\ [][NextBackup]_vars

-----------------------------------------------------------------------------
(* Properties of the request handlers (specification Spec).                *)

\* the posts a cache file holds
CachedPosts(file) == get_from_cache(file).val

\* C1: whenever the cache file exists and parses, a list fetch returns
\* exactly the cached collection, makes no upstream call and leaves the file
\* as it is; in particular the list fetch that follows a successful list
\* fetch from an absent cache makes no upstream call and returns the same
\* collection.
C1_WarmListServedFromCache ==
  [][(op' = "list" /\ cache.exists /\ get_from_cache(cache).ok)
       => /\ status' = 200
          /\ calls' = <<>>
          /\ result' = CachedPosts(cache)
          /\ cache' = cache
          /\ (op = "list" /\ status = 200 /\ before = "absent"
                => result' = result)]_vars

\* C2: a forced refresh makes at least one upstream call, the list call
\* first, whatever the cache held; when it succeeds the cache file holds
\* exactly the normalization of the notes fetched during that refresh.
C2_RefreshRefetchesAndReplaces ==
  op = "refresh" =>
    /\ Len(calls) >= 1
    /\ calls[1].kind = "list"
    /\ status = 200 =>
         /\ cache.exists
         /\ Len(cache.doc) = Len(fetched)
         /\ \A i \in 1..Len(fetched) :
              /\ transform_note(fetched[i]).ok
              /\ CachedPosts(cache)[i] = transform_note(fetched[i]).val
         /\ result = CachedPosts(cache)

\* C2 witness: a refresh that started on a cache holding posts succeeded
\* with an empty upstream list, so nothing of the prior content is left.
C2_Witness ==
  /\ op = "refresh" /\ before = "nonempty" /\ status = 200
  /\ cache.exists /\ cache.doc = <<>>

\* C3: on a warm cache, a single-item fetch for a slug that some cached post
\* carries returns the first such post in collection order and makes no
\* upstream call.
C3_WarmSlugHitFirstMatch ==
  [][(/\ op' = "get"
      /\ cache.exists
      /\ \E i \in 1..Len(CachedPosts(cache)) :
            CachedPosts(cache)[i].slug = PyStr(arg'))
       => /\ status' = 200
          /\ calls' = <<>>
          /\ Len(result') = 1
          /\ \E i \in 1..Len(CachedPosts(cache)) :
               /\ result'[1] = CachedPosts(cache)[i]
               /\ CachedPosts(cache)[i].slug = PyStr(arg')
               /\ \A j \in 1..(i - 1) :
                    CachedPosts(cache)[j].slug # PyStr(arg')]_vars

\* C3 witness: a single-item fetch was served from a cache in which two
\* different posts carry the requested slug.
C3_Witness ==
  /\ op = "get" /\ status = 200 /\ calls = <<>>
  /\ Len(cache.doc) = 2
  /\ CachedPosts(cache)[1].slug = PyStr(arg)
  /\ CachedPosts(cache)[2].slug = PyStr(arg)
  /\ CachedPosts(cache)[1] # CachedPosts(cache)[2]

\* C4: a list fetch that fails leaves the cache absent, and a list fetch or
\* refresh that went upstream and succeeded leaves a collection with one
\* post per note of the upstream list.
C4_FailedListLeavesCacheAbsent ==
  /\ (op = "list" /\ status # 200) => ~cache.exists
  /\ (op \in {"list", "refresh"} /\ status = 200 /\ calls # <<>>)
       => (cache.exists /\ Len(cache.doc) = Len(calls) - 1)

\* C5: a single-item fetch leaves the cache file as it was, whatever its
\* outcome.
C5_GetLeavesCacheUnchanged == [][op' = "get" => cache' = cache]_vars

\* C5 witness: a single-item fetch missed a warm cache and was served from
\* upstream.
C5_Witness ==
  /\ op = "get" /\ before = "nonempty" /\ status = 200
  /\ Len(calls) = 1 /\ Len(cache.doc) >= 1

\* C7: a single-item fetch that went upstream and was answered not-found
\* ends with a NotFound outcome (404), not with the 500 of other failures.
C7_UpstreamNotFoundIsNotFound ==
  (op = "get" /\ calls # <<>> /\ calls[1].code = 404) => status = 404

C14_CachedSlugsUnique ==
  (cache.exists /\ cache.parses) =>
    \A i, j \in 1..Len(cache.doc) :
      i # j => CachedPosts(cache)[i].slug # CachedPosts(cache)[j].slug

\* C16: a list fetch on an absent cache makes the list call, then one detail
\* call per listed note in list order, and no call after one that failed;
\* when it succeeds every listed note was called for, and the collection it
\* caches and returns has the i-th post normalized from the i-th detail
\* answer.
C16_ColdListCallsInOrder ==
  (op = "list" /\ before = "absent") =>
    /\ Len(calls) >= 1
    /\ calls[1].kind = "list" /\ calls[1].id = ""
    /\ Len(calls) - 1 <= Len(listed)
    /\ \A i \in 1..(Len(calls) - 1) :
         /\ calls[i + 1].kind = "detail"
         /\ PyStr(calls[i + 1].id) = listed[i]
         /\ calls[i].code = 200
    /\ Len(fetched) = Cardinality({ i \in 2..Len(calls) : calls[i].code = 200 })
    /\ status = 200 =>
         /\ Len(calls) = 1 + Len(listed)
         /\ calls[Len(calls)].code = 200
         /\ Len(result) = Len(listed)
         /\ cache.exists /\ cache.parses
         /\ CachedPosts(cache) = result
         /\ \A i \in 1..Len(listed) :
              /\ transform_note(fetched[i]).ok
              /\ result[i] = transform_note(fetched[i]).val
    /\ calls[Len(calls)].code # 200 => status = 500

\* C16 witness: a list fetch on an absent cache cached two posts after three
\* upstream calls.
C16_Witness ==
  /\ op = "list" /\ before = "absent" /\ status = 200
  /\ Len(calls) = 3 /\ Len(cache.doc) = 2

\* C18: a forced refresh whose upstream fetch or normalization fails ends
\* with the cache absent, whatever the cache held, and the list fetch that
\* follows goes upstream.
C18_FailedRefreshLosesCache ==
  [][/\ (op' = "refresh" /\ status' = 500 /\ detail' # ListFailure("OSError"))
          => (~cache'.exists /\ Len(calls') >= 1)
     /\ (op = "refresh" /\ status = 500 /\ ~cache.exists /\ op' = "list")
          => (Len(calls') >= 1 /\ calls'[1].kind = "list")]_vars

\* C18 witness: a forced refresh on a cache holding posts failed and left
\* the cache absent.
C18_Witness ==
  /\ op = "refresh" /\ before = "nonempty" /\ status = 500
  /\ ~cache.exists

\* C19: a successful single-item fetch for a slug returns a Post with that
\* slug.
C19_ReturnedSlugIsRequested ==
  (op = "get" /\ status = 200) =>
    (Len(result) = 1 /\ result[1].slug = PyStr(arg))

-----------------------------------------------------------------------------
(* Properties of the cache file encoding (specification SpecCache).        *)

\* C6: reading back a collection written to the cache gives a collection of
\* the same length and order, equal field for field, in which every optional
\* field that was None is still None.
C6_CacheRoundTrip ==
  pc = "done" =>
    /\ readback.ok /\ ~readback.none
    /\ Len(readback.val) = Len(notes)
    /\ \A i \in 1..Len(notes) : \A f \in PostFields :
         /\ readback.val[i][f] = notes[i][f]
         /\ notes[i][f] = PyNone => readback.val[i][f].t = "None"

\* C6 witness: a collection of two posts was read back, the first with all
\* four optional fields absent, the second with all of them present.
C6_Witness ==
  /\ pc = "done" /\ Len(notes) = 2
  /\ \A f \in {"publishDate", "lastModified", "coverImage", "readingTime"} :
       notes[1][f] = PyNone /\ notes[2][f] # PyNone

-----------------------------------------------------------------------------
(* Properties of transform_note (specification SpecNormalize).             *)

\* the i-th character of a str
CharAt(x, i) == SubSeq(x, i, i)

\* C8: the slug is the permalink when the note has one, else the shortId,
\* normalization fails when the note has neither, and no Post has an empty
\* slug.
C8_SlugOrMalformed ==
  pc = "done" =>
    /\ (out.ok /\ Truthy(raw.permalink)) => out.val.slug = raw.permalink
    /\ (out.ok /\ ~Truthy(raw.permalink) /\ Truthy(raw.shortId))
         => out.val.slug = raw.shortId
    /\ (~Truthy(raw.permalink) /\ ~Truthy(raw.shortId)) => ~out.ok
    /\ out.ok => out.val.slug # PyStr("")

\* C9 as stated: whenever the raw note has an excerpt field (a string, empty
\* or not), the Post's excerpt is the raw excerpt.
C9_ExcerptFieldKept ==
  (pc = "done" /\ out.ok /\ raw.excerpt.t = "str")
    => out.val.excerpt = raw.excerpt

\* C9 amended: whenever the raw note has a non-empty excerpt, the Post's
\* excerpt is the raw excerpt unchanged.
C9_NonEmptyExcerptKept ==
  (pc = "done" /\ out.ok /\ raw.excerpt.t = "str" /\ raw.excerpt.s # "")
    => out.val.excerpt = raw.excerpt

\* C9 witness: a note with a non-empty excerpt and a content was normalized.
C9_Witness ==
  /\ pc = "done" /\ out.ok
  /\ raw.excerpt = PyStr("Summary") /\ raw.content = PyStr("short")

\* C10: for a note without excerpt, the Post's excerpt is the first
\* ExcerptLen characters of the content, or the whole content when it is
\* shorter, followed by "..."; it is never longer than content plus marker.
C10_DerivedExcerpt ==
  (pc = "done" /\ out.ok /\ raw.excerpt = Missing) =>
    LET c == out.val.content.s
        e == out.val.excerpt.s
        k == IF Len(c) < ExcerptLen THEN Len(c) ELSE ExcerptLen
    IN  /\ out.val.excerpt.t = "str"
        /\ Len(e) = k + Len(EllipsisMarker)
        /\ \A i \in 1..k : CharAt(e, i) = CharAt(c, i)
        /\ SubSeq(e, k + 1, Len(e)) = "..."
        /\ Len(e) <= Len(c) + Len(EllipsisMarker)
        /\ (c = "short" => e = "short...")

\* C10 witness: a note without excerpt whose content is shorter than
\* ExcerptLen was normalized.
C10_Witness ==
  /\ pc = "done" /\ out.ok
  /\ raw.excerpt = Missing /\ raw.content = PyStr("short")

\* C17: a raw note with an id and a title normalizes to a Post whatever
\* timestamps it carries: publishDate is publishedAt when the note has one,
\* else createdAt, else absent; lastModified is lastChangedAt when the note
\* has one, else absent.
C17_TimestampsOptional ==
  (/\ pc = "done"
   /\ raw.id # Missing /\ raw.title # Missing /\ raw.content # PyNone) =>
    /\ out.ok
    /\ raw.publishedAt.t = "int" => out.val.publishDate = raw.publishedAt
    /\ (raw.publishedAt = Missing /\ raw.createdAt # Missing)
         => out.val.publishDate = raw.createdAt
    /\ (raw.publishedAt = Missing /\ raw.createdAt = Missing)
         => out.val.publishDate = PyNone
    /\ raw.lastChangedAt # Missing => out.val.lastModified = raw.lastChangedAt
    /\ raw.lastChangedAt = Missing => out.val.lastModified = PyNone

-----------------------------------------------------------------------------
(* Properties of the two server processes (specification SpecRace).        *)

\* C12: the invalidation step of a forced refresh (exists(), then unlink())
\* removes the file when it is present and does nothing, without an error,
\* when it is absent: a process that finds the file absent goes on to the
\* fetch with the file absent and no error, a process whose unlink finds the
\* file removes it without an error, and unlink is called only on a file
\* that exists() has seen.
C12_InvalidateIdempotent ==
  [][\A p \in Workers :
       /\ (worker[p].pc = "exists" /\ worker'[p].pc # "exists" /\ ~cache.exists)
            => /\ worker'[p].pc = "probe"
               /\ worker'[p].inv = "absent"
               /\ worker'[p].status = 0
               /\ ~cache'.exists
       /\ (worker[p].pc = "unlink" /\ worker'[p].pc # "unlink" /\ cache.exists)
            => /\ worker'[p].pc = "probe"
               /\ worker'[p].inv = "removed"
               /\ worker'[p].status = 0
               /\ ~cache'.exists
       /\ (worker[p].pc = "exists" /\ worker'[p].pc = "unlink") => cache.exists]_vars

\* two invalidations in a row from different requests: the first removed the
\* file, the second found it absent, and the file is absent
C12_Witness ==
  \E p, q \in Workers :
    /\ p # q
    /\ worker[p].inv = "removed"
    /\ worker[q].inv = "absent"
    /\ worker[q].pc = "probe"
    /\ ~cache.exists

\* C13: a request that reads the cache file never finds a content that is
\* neither the collection before a write nor the collection written.
C13_ReadersSeeCompleteFile ==
  \A p \in Workers : worker[p].seen # "torn"

\* C15: after two list fetches that both found the file absent and both
\* wrote it, the file holds the collection of the one that wrote last.
C15_LastWriterWins ==
  (\A p \in Workers :
      /\ worker[p].pc = "done"
      /\ worker[p].kind = "list"
      /\ worker[p].seen = "absent"
      /\ worker[p].wrote)
    => cache = save_to_cache(worker[disk.last].mine)

-----------------------------------------------------------------------------
(* Properties of StaticManager (specification SpecBackup).                 *)

\* C20: restore_backup of a backup that create_backup returned writes to the
\* file the backup was made of, that file then holds the backed-up content,
\* and a target that existed had its content saved as another backup.
C20_RestoreRoundTrip ==
  (/\ store.last.op = "restore"
   /\ store.last.status = 200
   /\ store.last.arg \in DOMAIN store.origin)
    => LET o == store.origin[store.last.arg]
       IN  /\ store.last.target = o.name
           /\ o.name \in DOMAIN store.files
           /\ store.files[o.name] = o.data
           /\ store.last.had =>
                /\ store.last.made \in DOMAIN store.backups
                /\ store.backups[store.last.made] = store.last.prev

====
